---- MODULE Spec2Model ----
(***************************************************************************)
(* hackatime-lsp: the heartbeat pipeline of src/hackatime-lsp/main.go.     *)
(*                                                                         *)
(* Editor notifications (didChange, didSave) build a Heartbeat, pass it    *)
(* through the event throttle (throttledHeartbeat), which spawns           *)
(* queueHeartbeat; the queue is drained one record per flushHeartbeats     *)
(* call, triggered by the batch timer or by an immediate flush when the    *)
(* queue holds maxQueueSize records; each popped record is handed to       *)
(* sendHeartbeat in its own goroutine.                                     *)
(*                                                                         *)
(* Every goroutine is a task with a position.  A critical section is two   *)
(* steps: the Lock() (with the reads that directly follow it) and the body *)
(* up to the deferred Unlock().  Strings that the code takes apart (the    *)
(* project root) are sequences of one-character strings.                   *)
(***************************************************************************)
EXTENDS Integers, Sequences, FiniteSets, TLC

(* ------------------------------------------------------------------ *)
(* Program constants (main.go:22-27).                                   *)
(* ------------------------------------------------------------------ *)
eventDebounceMs == 50
maxQueueSize == 100

(* ------------------------------------------------------------------ *)
(* Bounds of the model.                                                 *)
(* ------------------------------------------------------------------ *)
\* notifications handled in one behaviour
MaxEvents == 2
\* clock readings are TickMs apart and at most MaxTime (milliseconds)
TickMs == 25
MaxTime == 200
\* batch timers that fire in one behaviour
MaxTimerFires == 1
\* direct calls in the function-level specification
MaxCalls == 3

(* ------------------------------------------------------------------ *)
(* Inputs.                                                              *)
(* ------------------------------------------------------------------ *)
Docs == {"/a.go", "/b.go"}
\* the Range of the first content change: none, or its start position
NoRange == << >>
Ranges == {NoRange, <<3, 5>>}
RepoRoot == <<"/", "r", "e", "p", "o">>
\* the root the initialize request carries (already cleaned), or none
NoRoot == << >>
RootParams == {NoRoot, RepoRoot}
CliPaths == {"", "/usr/bin/wakatime-cli"}
\* what cmd.Run() returns: nil, or an error (the process could not be
\* started, exited non-zero, or was killed at the timeout)
RunOutcomes == {"nil", "error"}

\* the time between two readings of the clock
Elapsed == {TickMs, 2 * TickMs}

\* records already queued in the loaded initial state: the notifications
\* of one behaviour take the queue to maxQueueSize and one past it
Backlog == maxQueueSize - MaxEvents + 1

NilTimer == << >>
Free == << >>

VARIABLES
    \* globals of main.go:29-46
    projectRoot, projectFolder, wakatimeCliPath,
    heartbeatQueue, queueMutex,
    lastEventTime, eventMutex,
    batchSendTimer,
    lastCursorPos, cursorMutex,
    \* the runtime: clock, goroutines, timers
    now, initialized,
    handlers, queueTasks, timerTasks, flushTasks, sendTasks,
    timers,
    \* sendHeartbeat's last return value and the processes it started
    lastResult, spawned,
    \* history
    nEvents, nextId, timerCount, firedCount, nCalls,
    cursorLog, admitLog, appended, dispatched,
    \* the number of queueHeartbeat calls so far that left maxQueueSize
    \* records or more in the queue (main.go:118)
    capEnqueues

globals == <<projectRoot, projectFolder, wakatimeCliPath, heartbeatQueue,
             queueMutex, lastEventTime, eventMutex, batchSendTimer,
             lastCursorPos, cursorMutex>>
runtime == <<now, initialized, handlers, queueTasks, timerTasks, flushTasks,
             sendTasks, timers, lastResult, spawned>>
history == <<nEvents, nextId, timerCount, firedCount, nCalls,
             cursorLog, admitLog, appended, dispatched, capEnqueues>>
vars == <<globals, runtime, history>>

(* ------------------------------------------------------------------ *)
(* Heartbeat (types.go:3-23), the fields the pipeline reads or writes.  *)
(* id is the order of construction; it is not a field of the program.   *)
(* ------------------------------------------------------------------ *)
Heartbeat(id, uri, lineNumber, cursorPos, isWrite) ==
    [id |-> id, Entity |-> uri, LineNumber |-> lineNumber,
     CursorPos |-> cursorPos, IsWrite |-> isWrite,
     AlternateProject |-> << >>, ProjectFolder |-> << >>]

(* ------------------------------------------------------------------ *)
(* Cursor tracker (main.go:48-66).                                      *)
(* ------------------------------------------------------------------ *)
\* mutant: the line is stored instead of the column
saveCursorPositionLine(table, uri, line, pos) ==
    [u \in (DOMAIN table) \cup {uri} |-> IF u = uri THEN line ELSE table[u]]

saveCursorPosition(table, uri, line, pos) ==
    [u \in (DOMAIN table) \cup {uri} |-> IF u = uri THEN pos ELSE table[u]]

getCursorPosition(table, uri) ==
    IF uri \in DOMAIN table THEN table[uri] ELSE 0

(* ------------------------------------------------------------------ *)
(* Event throttle (main.go:155-173): the decision of line 166-169.      *)
(* ------------------------------------------------------------------ *)
\* mutant: the window compared without its unit (50 ns, not 50 ms)
ThrottleAdmitsNoUnit(isWrite, exists, lastTime, t) ==
    \/ isWrite
    \/ ~exists
    \/ t - lastTime >= 0

\* mutant: a write is throttled like a change
ThrottleAdmitsWritesToo(isWrite, exists, lastTime, t) ==
    \/ ~exists
    \/ t - lastTime >= eventDebounceMs

ThrottleAdmits(isWrite, exists, lastTime, t) ==
    \/ isWrite
    \/ ~exists
    \/ t - lastTime >= eventDebounceMs

(* ------------------------------------------------------------------ *)
(* filepath.Base, as queueHeartbeat calls it (main.go:110): strip the   *)
(* trailing separators, keep what follows the last separator.           *)
(* ------------------------------------------------------------------ *)
RECURSIVE StripTrailing(_)
StripTrailing(p) ==
    IF Len(p) > 0 /\ p[Len(p)] = "/"
    THEN StripTrailing(SubSeq(p, 1, Len(p) - 1))
    ELSE p

RECURSIVE LastSeparator(_, _)
LastSeparator(p, i) ==
    IF i >= 1 /\ p[i] # "/" THEN LastSeparator(p, i - 1) ELSE i

Base(path) ==
    IF path = << >> THEN <<".">>
    ELSE LET p == StripTrailing(path)
             i == LastSeparator(p, Len(p))
             q == IF i >= 1 THEN SubSeq(p, i + 1, Len(p)) ELSE p
         IN  IF q = << >> THEN <<"/">> ELSE q

(* ------------------------------------------------------------------ *)
(* queueHeartbeat (main.go:105-123).                                    *)
(* ------------------------------------------------------------------ *)
\* mutant: the root itself, not its base name
FillProjectNoBase(hb, root, folder) ==
    [hb EXCEPT
       !.AlternateProject =
           IF hb.AlternateProject = << >> /\ root # << >>
           THEN root ELSE hb.AlternateProject,
       !.ProjectFolder =
           IF hb.ProjectFolder = << >> /\ folder # << >>
           THEN folder ELSE hb.ProjectFolder]

\* lines 109-114: fill the project fields that are empty
FillProject(hb, root, folder) ==
    [hb EXCEPT
       !.AlternateProject =
           IF hb.AlternateProject = << >> /\ root # << >>
           THEN Base(root) ELSE hb.AlternateProject,
       !.ProjectFolder =
           IF hb.ProjectFolder = << >> /\ folder # << >>
           THEN folder ELSE hb.ProjectFolder]

\* mutant: the record goes to the head of the queue
EnqueueAtHead(queue, hb) == <<hb>> \o queue

\* line 116: heartbeatQueue = append(heartbeatQueue, hb)
Enqueue(queue, hb) == Append(queue, hb)

\* mutant: the first record does not start the timer
AfterEnqueueNoSchedule(len) ==
    IF len >= maxQueueSize THEN "flush" ELSE "none"

\* mutant: every record after the first starts an immediate flush
AfterEnqueueFlushAlways(len) ==
    IF len = 1 THEN "schedule" ELSE "flush"

\* mutant: the immediate flush starts one record late
AfterEnqueueOffByOne(len) ==
    IF len > maxQueueSize THEN "flush"
    ELSE IF len = 1 THEN "schedule"
    ELSE "none"

\* lines 118-122: what follows the append, by the new queue length
AfterEnqueue(len) ==
    IF len >= maxQueueSize THEN "flush"
    ELSE IF len = 1 THEN "schedule"
    ELSE "none"

(* ------------------------------------------------------------------ *)
(* scheduleBatchSend (main.go:125-134) on the timer state               *)
(* [ref: batchSendTimer, pending: the timers not yet fired, count].     *)
(* ------------------------------------------------------------------ *)
\* mutant: no timer is ever started
scheduleBatchSendNever(s) == s

\* mutant: no check for a timer that is already active
scheduleBatchSendAlways(s) ==
    [ref |-> <<s.count + 1>>,
     pending |-> s.pending \cup {s.count + 1},
     count |-> s.count + 1]

scheduleBatchSend(s) ==
    IF s.ref # NilTimer THEN s
    ELSE [ref |-> <<s.count + 1>>,
          pending |-> s.pending \cup {s.count + 1},
          count |-> s.count + 1]

TimerState == [ref |-> batchSendTimer, pending |-> timers, count |-> timerCount]

SetTimerState(s) ==
    /\ batchSendTimer' = s.ref
    /\ timers' = s.pending
    /\ timerCount' = s.count

(* ------------------------------------------------------------------ *)
(* flushHeartbeats (main.go:136-153): the record it pops (line 144) and *)
(* the queue it leaves (line 145).                                      *)
(* ------------------------------------------------------------------ *)
\* mutant: the newest record is taken
FlushPickLast(q) == q[Len(q)]

FlushPick(q) == Head(q)

\* mutant: the whole batch is dropped from the queue
FlushRestDrainAll(q) == << >>

FlushRest(q) == Tail(q)

(* ------------------------------------------------------------------ *)
(* sendHeartbeat (main.go:90-103): whether it goes on to start the      *)
(* external process (line 92).                                          *)
(* ------------------------------------------------------------------ *)
\* mutant: no check of the path
SendStartsProcessAlways(cliPath) == TRUE

SendStartsProcess(cliPath) == cliPath # ""

\* mutant: the flush keeps the lock for the delivery it started
LockAfterDispatchHeld(tid) == tid

\* line 147 starts sendHeartbeat with `go`, and the deferred Unlock() of
\* line 138 runs at the return, without a wait for the goroutine
LockAfterDispatch(tid) == Free

\* mutant: a failed delivery puts the record back
QueueAfterDeliveryRetry(queue, hb, result) ==
    IF result = "nil" THEN queue ELSE Append(queue, hb)

\* line 147: `go sendHeartbeat(hb)` drops what sendHeartbeat returns, and
\* sendHeartbeat (lines 90-103) touches no package variable
QueueAfterDelivery(queue, hb, result) == queue

(* ------------------------------------------------------------------ *)
(* Initial states.                                                      *)
(* ------------------------------------------------------------------ *)
\* what every initial state shares: no goroutine is running
InitIdle ==
    /\ queueMutex = Free /\ eventMutex = Free /\ cursorMutex = Free
    /\ lastCursorPos = << >>
    /\ now = 0
    /\ handlers = {} /\ queueTasks = {} /\ timerTasks = {}
    /\ flushTasks = {} /\ sendTasks = {}
    /\ lastResult = "none" /\ spawned = {}
    /\ nEvents = 0 /\ firedCount = 0 /\ nCalls = 0
    /\ cursorLog = << >> /\ dispatched = << >>
    /\ capEnqueues = 0

\* the process after main (main.go:175-177) has parsed its flags
InitFresh ==
    /\ InitIdle
    /\ projectRoot = << >> /\ projectFolder = << >>
    /\ wakatimeCliPath \in CliPaths
    /\ heartbeatQueue = << >>
    /\ lastEventTime = << >>
    /\ batchSendTimer = NilTimer /\ timers = {} /\ timerCount = 0
    /\ initialized = FALSE
    /\ nextId = 1
    /\ admitLog = << >> /\ appended = << >>

\* the record a save of /a.go builds when no cursor position is stored
\* (main.go:242-252), as queueHeartbeat stores it when no root is set
LoadedRecord(i) ==
    FillProject(Heartbeat(i, "/a.go", 1, 0, TRUE), NoRoot, NoRoot)

\* the process that was started with a wakatime-cli path, initialized
\* without a root, and has since admitted and queued Backlog saves of
\* /a.go, the first of which started the batch timer, which has not fired
InitLoaded ==
    /\ InitIdle
    /\ projectRoot = NoRoot /\ projectFolder = NoRoot
    /\ wakatimeCliPath = "/usr/bin/wakatime-cli"
    /\ heartbeatQueue = [i \in 1..Backlog |-> LoadedRecord(i)]
    /\ lastEventTime = [u \in {"/a.go"} |-> 0]
    /\ batchSendTimer = <<1>> /\ timers = {1} /\ timerCount = 1
    /\ initialized = TRUE
    /\ nextId = Backlog + 1
    /\ admitLog = [i \in 1..Backlog |->
                     [id |-> i, uri |-> "/a.go", isWrite |-> TRUE, t |-> 0]]
    /\ appended = [i \in 1..Backlog |-> i]

Init == InitFresh \/ InitLoaded

(* ------------------------------------------------------------------ *)
(* The initialize request (main.go:180-193).                            *)
(* ------------------------------------------------------------------ *)
Initialize(root) ==
    /\ ~initialized
    /\ initialized' = TRUE
    /\ projectRoot' = IF root # NoRoot THEN root ELSE projectRoot
    /\ projectFolder' = IF root # NoRoot THEN root ELSE projectFolder
    /\ UNCHANGED <<wakatimeCliPath, heartbeatQueue, queueMutex, lastEventTime,
                   eventMutex, batchSendTimer, lastCursorPos,
                   cursorMutex>>
    /\ UNCHANGED <<now, handlers, queueTasks, timerTasks, flushTasks,
                   sendTasks, timers, lastResult, spawned>>
    /\ UNCHANGED history

(* ------------------------------------------------------------------ *)
(* Notification handlers (main.go:195-257).  A handler is               *)
(* [id, kind, pc, hb, tNow, exists, lastTime]; tNow, exists and         *)
(* lastTime are the locals of throttledHeartbeat (lines 163-164).       *)
(* ------------------------------------------------------------------ *)
HandlerTid(h) == <<"handler", h.id>>

\* mutant: the handler keeps cursorMutex when the function returns
CursorUnlockMissing(tid) == tid

\* lines 50 and 60: defer cursorMutex.Unlock()
CursorUnlock(tid) == Free

NewHandler(kind, pc, hb) ==
    [id |-> hb.id, kind |-> kind, pc |-> pc, hb |-> hb,
     tNow |-> 0, exists |-> FALSE, lastTime |-> 0]

\* lines 198-209: line number and cursor position of a change
ChangeLine(range) == IF range # NoRange THEN range[1] + 1 ELSE 1

ChangeCursor(range) == IF range # NoRange THEN range[2] ELSE 0

\* didChange up to the Lock() of saveCursorPosition (lines 196-216, 49)
DidChangeBegin(uri, range) ==
    /\ initialized
    /\ nEvents < MaxEvents
    /\ cursorMutex = Free
    /\ LET hb == Heartbeat(nextId, uri, ChangeLine(range), ChangeCursor(range), FALSE)
       IN  /\ handlers' = handlers \cup {NewHandler("change", "saveCursor", hb)}
           /\ cursorMutex' = <<"handler", nextId>>
    /\ nEvents' = nEvents + 1
    /\ nextId' = nextId + 1
    /\ UNCHANGED <<projectRoot, projectFolder, wakatimeCliPath, heartbeatQueue,
                   queueMutex, lastEventTime, eventMutex, batchSendTimer,
                   lastCursorPos>>
    /\ UNCHANGED <<now, initialized, queueTasks, timerTasks, flushTasks,
                   sendTasks, timers, lastResult, spawned>>
    /\ UNCHANGED <<timerCount, firedCount, nCalls, cursorLog, admitLog,
                   appended, dispatched, capEnqueues>>

\* saveCursorPosition's body and Unlock() (lines 52-56)
SaveCursorBody(h) ==
    /\ h.pc = "saveCursor"
    /\ lastCursorPos' = saveCursorPosition(lastCursorPos, h.hb.Entity,
                                           h.hb.LineNumber, h.hb.CursorPos)
    /\ cursorMutex' = CursorUnlock(HandlerTid(h))
    /\ handlers' = (handlers \ {h}) \cup {[h EXCEPT !.pc = "throttle"]}
    /\ cursorLog' = Append(cursorLog, [id |-> h.id, uri |-> h.hb.Entity,
                                       pos |-> h.hb.CursorPos])
    /\ UNCHANGED <<projectRoot, projectFolder, wakatimeCliPath, heartbeatQueue,
                   queueMutex, lastEventTime, eventMutex, batchSendTimer>>
    /\ UNCHANGED <<now, initialized, queueTasks, timerTasks, flushTasks,
                   sendTasks, timers, lastResult, spawned>>
    /\ UNCHANGED <<nEvents, nextId, timerCount, firedCount, nCalls, admitLog,
                   appended, dispatched, capEnqueues>>

\* didSave up to the Lock() of getCursorPosition (lines 235-250, 59)
DidSaveBegin(uri) ==
    /\ initialized
    /\ nEvents < MaxEvents
    /\ cursorMutex = Free
    /\ LET hb == Heartbeat(nextId, uri, 1, 0, TRUE)
       IN  /\ handlers' = handlers \cup {NewHandler("save", "getCursor", hb)}
           /\ cursorMutex' = <<"handler", nextId>>
    /\ nEvents' = nEvents + 1
    /\ nextId' = nextId + 1
    /\ UNCHANGED <<projectRoot, projectFolder, wakatimeCliPath, heartbeatQueue,
                   queueMutex, lastEventTime, eventMutex, batchSendTimer,
                   lastCursorPos>>
    /\ UNCHANGED <<now, initialized, queueTasks, timerTasks, flushTasks,
                   sendTasks, timers, lastResult, spawned>>
    /\ UNCHANGED <<timerCount, firedCount, nCalls, cursorLog, admitLog,
                   appended, dispatched, capEnqueues>>

\* getCursorPosition's body and Unlock() (lines 62-65), into the record
GetCursorBody(h) ==
    /\ h.pc = "getCursor"
    /\ cursorMutex' = CursorUnlock(HandlerTid(h))
    /\ handlers' = (handlers \ {h}) \cup
          {[h EXCEPT !.pc = "throttle",
                     !.hb.CursorPos = getCursorPosition(lastCursorPos, h.hb.Entity)]}
    /\ UNCHANGED <<projectRoot, projectFolder, wakatimeCliPath, heartbeatQueue,
                   queueMutex, lastEventTime, eventMutex, batchSendTimer,
                   lastCursorPos>>
    /\ UNCHANGED <<now, initialized, queueTasks, timerTasks, flushTasks,
                   sendTasks, timers, lastResult, spawned>>
    /\ UNCHANGED history

(* ------------------------------------------------------------------ *)
(* throttledHeartbeat (main.go:155-173).                                *)
(* ------------------------------------------------------------------ *)
\* the table with the entry of uri set to t
StampEntry(table, uri, t) ==
    [u \in (DOMAIN table) \cup {uri} |-> IF u = uri THEN t ELSE table[u]]

\* mutant: the time of every event seen is stored
ThrottleStampAlways(table, uri, t, admit) == StampEntry(table, uri, t)

\* lines 167 and 170: lastEventTime[hb.Entity] = now, in the two
\* branches that admit and nowhere else
ThrottleStamp(table, uri, t, admit) ==
    IF admit THEN StampEntry(table, uri, t) ELSE table

\* Lock() and the reads of lines 163-164; time.Now() returns the last
\* reading plus the time d that has passed since
ThrottleLock(h, d) ==
    /\ h.pc = "throttle"
    /\ eventMutex = Free
    /\ now + d <= MaxTime
    /\ now' = now + d
    /\ eventMutex' = HandlerTid(h)
    /\ handlers' = (handlers \ {h}) \cup
          {[h EXCEPT !.pc = "throttleLocked",
                     !.tNow = now + d,
                     !.exists = h.hb.Entity \in DOMAIN lastEventTime,
                     !.lastTime = IF h.hb.Entity \in DOMAIN lastEventTime
                                  THEN lastEventTime[h.hb.Entity] ELSE 0]}
    /\ UNCHANGED <<projectRoot, projectFolder, wakatimeCliPath, heartbeatQueue,
                   queueMutex, lastEventTime, batchSendTimer, lastCursorPos, cursorMutex>>
    /\ UNCHANGED <<initialized, queueTasks, timerTasks, flushTasks,
                   sendTasks, timers, lastResult, spawned>>
    /\ UNCHANGED history

\* lines 166-172 and the deferred Unlock()
ThrottleBody(h) ==
    /\ h.pc = "throttleLocked"
    /\ LET admit == ThrottleAdmits(h.hb.IsWrite, h.exists, h.lastTime, h.tNow)
       IN  /\ lastEventTime' =
                 ThrottleStamp(lastEventTime, h.hb.Entity, h.tNow, admit)
           /\ IF admit
              THEN /\ queueTasks' =
                         queueTasks \cup {[hb |-> h.hb, pc |-> "start"]}
                   /\ admitLog' = Append(admitLog,
                         [id |-> h.id, uri |-> h.hb.Entity,
                          isWrite |-> h.hb.IsWrite, t |-> h.tNow])
              ELSE UNCHANGED <<queueTasks, admitLog>>
    /\ eventMutex' = Free
    /\ handlers' = handlers \ {h}
    /\ UNCHANGED <<projectRoot, projectFolder, wakatimeCliPath, heartbeatQueue,
                   queueMutex, batchSendTimer, lastCursorPos,
                   cursorMutex>>
    /\ UNCHANGED <<now, initialized, timerTasks, flushTasks, sendTasks, timers,
                   lastResult, spawned>>
    /\ UNCHANGED <<nEvents, nextId, timerCount, firedCount, nCalls,
                   cursorLog, appended, dispatched, capEnqueues>>

(* ------------------------------------------------------------------ *)
(* go queueHeartbeat(hb) (main.go:105-123).  A task is [hb, pc].        *)
(* ------------------------------------------------------------------ *)
QueueTid(q) == <<"queue", q.hb.id>>

QueueLock(q) ==
    /\ q.pc = "start"
    /\ queueMutex = Free
    /\ queueMutex' = QueueTid(q)
    /\ queueTasks' = (queueTasks \ {q}) \cup {[q EXCEPT !.pc = "locked"]}
    /\ UNCHANGED <<projectRoot, projectFolder, wakatimeCliPath, heartbeatQueue,
                   lastEventTime, eventMutex, batchSendTimer, lastCursorPos, cursorMutex>>
    /\ UNCHANGED <<now, initialized, handlers, timerTasks, flushTasks,
                   sendTasks, timers, lastResult, spawned>>
    /\ UNCHANGED history

\* lines 109-122 and the deferred Unlock()
QueueBody(q) ==
    /\ q.pc = "locked"
    /\ LET hb == FillProject(q.hb, projectRoot, projectFolder)
           queue == Enqueue(heartbeatQueue, hb)
           next == AfterEnqueue(Len(queue))
       IN  /\ heartbeatQueue' = queue
           /\ appended' = Append(appended, hb.id)
           /\ flushTasks' =
                 IF next = "flush"
                 THEN flushTasks \cup {[src |-> "goflush", n |-> hb.id, pc |-> "start"]}
                 ELSE flushTasks
           /\ capEnqueues' =
                 IF Len(queue) >= maxQueueSize THEN capEnqueues + 1
                 ELSE capEnqueues
           /\ SetTimerState(IF next = "schedule"
                            THEN scheduleBatchSend(TimerState) ELSE TimerState)
    /\ queueMutex' = Free
    /\ queueTasks' = queueTasks \ {q}
    /\ UNCHANGED <<projectRoot, projectFolder, wakatimeCliPath, lastEventTime,
                   eventMutex, lastCursorPos, cursorMutex>>
    /\ UNCHANGED <<now, initialized, handlers, timerTasks, sendTasks,
                   lastResult, spawned>>
    /\ UNCHANGED <<nEvents, nextId, firedCount, nCalls, cursorLog, admitLog,
                   dispatched>>

(* ------------------------------------------------------------------ *)
(* The batch timer (main.go:130-133).  TimerFire is the runtime         *)
(* starting the callback of a timer whose time has come; the 120 s are  *)
(* not counted, a pending timer may fire at any moment.                 *)
(* ------------------------------------------------------------------ *)
TimerExpires(t) ==
    /\ t \in timers
    /\ timers' = timers \ {t}
    /\ timerTasks' = timerTasks \cup {t}
    /\ firedCount' = firedCount + 1
    /\ UNCHANGED globals
    /\ UNCHANGED <<now, initialized, handlers, queueTasks, flushTasks,
                   sendTasks, lastResult, spawned>>
    /\ UNCHANGED <<nEvents, nextId, timerCount, nCalls, cursorLog, admitLog,
                   appended, dispatched, capEnqueues>>

\* the firings of a behaviour, counted up to MaxTimerFires
TimerFire(t) ==
    /\ firedCount < MaxTimerFires
    /\ TimerExpires(t)

\* line 131, outside any lock; the callback goes on to flushHeartbeats
TimerClear(t) ==
    /\ t \in timerTasks
    /\ batchSendTimer' = NilTimer
    /\ timerTasks' = timerTasks \ {t}
    /\ flushTasks' = flushTasks \cup {[src |-> "timerflush", n |-> t, pc |-> "start"]}
    /\ UNCHANGED <<projectRoot, projectFolder, wakatimeCliPath, heartbeatQueue,
                   queueMutex, lastEventTime, eventMutex, lastCursorPos, cursorMutex>>
    /\ UNCHANGED <<now, initialized, handlers, queueTasks, sendTasks, timers,
                   lastResult, spawned>>
    /\ UNCHANGED history

(* ------------------------------------------------------------------ *)
(* flushHeartbeats (main.go:136-153), called by the timer callback      *)
(* (src "timerflush") or spawned by queueHeartbeat (src "goflush").     *)
(* ------------------------------------------------------------------ *)
FlushTid(f) == <<f.src, f.n>>

FlushLock(f) ==
    /\ f.pc = "start"
    /\ queueMutex = Free
    /\ queueMutex' = FlushTid(f)
    /\ flushTasks' = (flushTasks \ {f}) \cup {[f EXCEPT !.pc = "locked"]}
    /\ UNCHANGED <<projectRoot, projectFolder, wakatimeCliPath, heartbeatQueue,
                   lastEventTime, eventMutex, batchSendTimer, lastCursorPos, cursorMutex>>
    /\ UNCHANGED <<now, initialized, handlers, queueTasks, timerTasks,
                   sendTasks, timers, lastResult, spawned>>
    /\ UNCHANGED history

\* lines 140-152 and the deferred Unlock()
FlushBody(f) ==
    /\ f.pc = "locked"
    /\ IF Len(heartbeatQueue) = 0
       THEN UNCHANGED <<heartbeatQueue, sendTasks, dispatched,
                        batchSendTimer, timers, timerCount>>
       ELSE LET hb == FlushPick(heartbeatQueue)
                rest == FlushRest(heartbeatQueue)
            IN  /\ heartbeatQueue' = rest
                /\ sendTasks' = sendTasks \cup {hb}
                /\ dispatched' = Append(dispatched, hb)
                /\ SetTimerState(IF Len(rest) > 0
                                 THEN scheduleBatchSend(TimerState)
                                 ELSE TimerState)
    /\ queueMutex' = IF Len(heartbeatQueue) = 0 THEN Free
                   ELSE LockAfterDispatch(FlushTid(f))
    /\ flushTasks' = flushTasks \ {f}
    /\ UNCHANGED <<projectRoot, projectFolder, wakatimeCliPath, lastEventTime,
                   eventMutex, lastCursorPos, cursorMutex>>
    /\ UNCHANGED <<now, initialized, handlers, queueTasks, timerTasks,
                   lastResult, spawned>>
    /\ UNCHANGED <<nEvents, nextId, firedCount, nCalls, cursorLog, admitLog,
                   appended, capEnqueues>>

(* ------------------------------------------------------------------ *)
(* go sendHeartbeat(hb) (main.go:90-103): the configuration error of    *)
(* line 93, or the external process and what cmd.Run() returns.         *)
(* ------------------------------------------------------------------ *)
SendHeartbeat(hb) ==
    /\ hb \in sendTasks
    /\ sendTasks' = sendTasks \ {hb}
    /\ IF SendStartsProcess(wakatimeCliPath)
       THEN /\ spawned' = spawned \cup {hb.id}
            /\ \E o \in RunOutcomes : lastResult' = o
       ELSE /\ spawned' = spawned
            /\ lastResult' = "config"
    /\ heartbeatQueue' = QueueAfterDelivery(heartbeatQueue, hb, lastResult')
    /\ UNCHANGED <<projectRoot, projectFolder, wakatimeCliPath, queueMutex,
                   lastEventTime, eventMutex, batchSendTimer, lastCursorPos,
                   cursorMutex>>
    /\ UNCHANGED <<now, initialized, handlers, queueTasks, timerTasks,
                   flushTasks, timers>>
    /\ UNCHANGED history

(* ------------------------------------------------------------------ *)
(* The server: every notification the editor may send, every goroutine  *)
(* step the scheduler may take.                                         *)
(* ------------------------------------------------------------------ *)
Next ==
    \/ \E root \in RootParams : Initialize(root)
    \/ \E uri \in Docs, range \in Ranges : DidChangeBegin(uri, range)
    \/ \E uri \in Docs : DidSaveBegin(uri)
    \/ \E h \in handlers : SaveCursorBody(h)
    \/ \E h \in handlers : GetCursorBody(h)
    \/ \E h \in handlers, d \in Elapsed : ThrottleLock(h, d)
    \/ \E h \in handlers : ThrottleBody(h)
    \/ \E q \in queueTasks : QueueLock(q)
    \/ \E q \in queueTasks : QueueBody(q)
    \/ \E t \in timers : TimerFire(t)
    \/ \E t \in timerTasks : TimerClear(t)
    \/ \E f \in flushTasks : FlushLock(f)
    \/ \E f \in flushTasks : FlushBody(f)
    \/ \E hb \in sendTasks : SendHeartbeat(hb)

Spec == Init /\ [][Next]_vars

(* ------------------------------------------------------------------ *)
(* The server under a fair scheduler: from the fresh process, with      *)
(* every pending timer free to fire.  The Go runtime runs every         *)
(* runnable goroutine and every expired timer's callback, and a         *)
(* goroutine blocked in Lock() gets the mutex once it stays free; the   *)
(* editor is not obliged to send anything.                              *)
(* ------------------------------------------------------------------ *)
NextFair ==
    \/ \E root \in RootParams : Initialize(root)
    \/ \E uri \in Docs, range \in Ranges : DidChangeBegin(uri, range)
    \/ \E uri \in Docs : DidSaveBegin(uri)
    \/ \E h \in handlers : SaveCursorBody(h)
    \/ \E h \in handlers : GetCursorBody(h)
    \/ \E h \in handlers, d \in Elapsed : ThrottleLock(h, d)
    \/ \E h \in handlers : ThrottleBody(h)
    \/ \E q \in queueTasks : QueueLock(q)
    \/ \E q \in queueTasks : QueueBody(q)
    \/ \E t \in timers : TimerExpires(t)
    \/ \E t \in timerTasks : TimerClear(t)
    \/ \E f \in flushTasks : FlushLock(f)
    \/ \E f \in flushTasks : FlushBody(f)
    \/ \E hb \in sendTasks : SendHeartbeat(hb)

Fairness ==
    /\ WF_vars(\E h \in handlers : SaveCursorBody(h))
    /\ WF_vars(\E h \in handlers : GetCursorBody(h))
    /\ WF_vars(\E h \in handlers, d \in Elapsed : ThrottleLock(h, d))
    /\ WF_vars(\E h \in handlers : ThrottleBody(h))
    /\ WF_vars(\E q \in queueTasks : QueueLock(q))
    /\ WF_vars(\E q \in queueTasks : QueueBody(q))
    /\ WF_vars(\E t \in timers : TimerExpires(t))
    /\ WF_vars(\E t \in timerTasks : TimerClear(t))
    /\ WF_vars(\E f \in flushTasks : FlushLock(f))
    /\ WF_vars(\E f \in flushTasks : FlushBody(f))
    /\ WF_vars(\E hb \in sendTasks : SendHeartbeat(hb))

SpecFair == InitFresh /\ [][NextFair]_vars /\ Fairness

(* ------------------------------------------------------------------ *)
(* The functions on their own: queueHeartbeat and flushHeartbeats       *)
(* called with any record at any moment, under any project root, as     *)
(* goroutines beside the batch timer.  throttledHeartbeat starts        *)
(* queueHeartbeat with `go` (main.go:168, 171) and queueHeartbeat       *)
(* starts flushHeartbeats with `go` (main.go:119): nothing orders such  *)
(* a goroutine with the timer callbacks and the calls that come after   *)
(* it, so it may take the queue lock when the queue is short or empty.  *)
(* ------------------------------------------------------------------ *)
SlashRoot == <<"/">>
NestedRoot == <<"/", "w", "/", "a", "p", "p">>
CallRoots == {NoRoot, RepoRoot, NestedRoot, SlashRoot}
CallAlternates == {<< >>, <<"x">>}
CallProjectFolders == {<< >>, <<"/", "y">>}

InitCalls ==
    /\ InitIdle
    /\ projectRoot \in CallRoots /\ projectFolder = projectRoot
    /\ wakatimeCliPath = "/usr/bin/wakatime-cli"
    /\ heartbeatQueue = << >>
    /\ lastEventTime = << >>
    /\ batchSendTimer = NilTimer /\ timers = {} /\ timerCount = 0
    /\ initialized = TRUE
    /\ nextId = 1
    /\ admitLog = << >> /\ appended = << >>

\* a queueHeartbeat goroutine (main.go:168, 171) with any project fields
CallQueueHeartbeat(alt, folder) ==
    /\ nCalls < MaxCalls
    /\ LET hb == [Heartbeat(nextId, "/a.go", 1, 0, FALSE)
                    EXCEPT !.AlternateProject = alt, !.ProjectFolder = folder]
       IN  queueTasks' = queueTasks \cup {[hb |-> hb, pc |-> "start"]}
    /\ nCalls' = nCalls + 1
    /\ nextId' = nextId + 1
    /\ UNCHANGED globals
    /\ UNCHANGED <<now, initialized, handlers, timerTasks, flushTasks,
                   sendTasks, timers, lastResult, spawned>>
    /\ UNCHANGED <<nEvents, timerCount, firedCount, cursorLog, admitLog,
                   appended, dispatched, capEnqueues>>

\* a flushHeartbeats goroutine that queueHeartbeat started at the cap
\* (main.go:119) and that has yet to take the queue lock
CallFlushHeartbeats ==
    /\ nCalls < MaxCalls
    /\ flushTasks' = flushTasks \cup
          {[src |-> "goflush", n |-> nextId, pc |-> "start"]}
    /\ nCalls' = nCalls + 1
    /\ nextId' = nextId + 1
    /\ UNCHANGED globals
    /\ UNCHANGED <<now, initialized, handlers, queueTasks, timerTasks,
                   sendTasks, timers, lastResult, spawned>>
    /\ capEnqueues' = capEnqueues + 1
    /\ UNCHANGED <<nEvents, timerCount, firedCount, cursorLog, admitLog,
                   appended, dispatched>>

NextCalls ==
    \/ \E alt \in CallAlternates, folder \in CallProjectFolders :
          CallQueueHeartbeat(alt, folder)
    \/ CallFlushHeartbeats
    \/ \E q \in queueTasks : QueueLock(q)
    \/ \E q \in queueTasks : QueueBody(q)
    \/ \E t \in timers : TimerFire(t)
    \/ \E t \in timerTasks : TimerClear(t)
    \/ \E f \in flushTasks : FlushLock(f)
    \/ \E f \in flushTasks : FlushBody(f)
    \/ \E hb \in sendTasks : SendHeartbeat(hb)

SpecCalls == InitCalls /\ [][NextCalls]_vars

(* ------------------------------------------------------------------ *)
(* Properties.                                                          *)
(* ------------------------------------------------------------------ *)
AdmitIds == {admitLog[i].id : i \in 1..Len(admitLog)}

HandlerIds == {h.id : h \in handlers}

\* the change events that ran to the end and were not admitted
DroppedChanges ==
    {k \in 1..Len(cursorLog) :
        /\ cursorLog[k].id \notin HandlerIds
        /\ cursorLog[k].id \notin AdmitIds}

\* handler h runs the body of throttledHeartbeat in this step
ThrottleStep(h) ==
    /\ h.pc = "throttleLocked"
    /\ \A g \in handlers' : g.id # h.id

\* task q runs the body of queueHeartbeat in this step
QueueStep(q) ==
    /\ q.pc = "locked"
    /\ q \notin queueTasks'

\* task f runs the body of flushHeartbeats in this step
FlushStep(f) ==
    /\ f.pc = "locked"
    /\ f \notin flushTasks'

\* C1: an admitted non-write event of a document comes at least
\* eventDebounceMs after every event admitted before it for that document
\* (so no admission time was recorded, or the recorded one was that old):
\* of the non-write events less than 50 ms after an admitted event, the
\* throttle admits none, hence at most one, however the concurrent calls
\* interleave.
C1_ThrottleWindow ==
    \A j \in 1..Len(admitLog) :
        ~admitLog[j].isWrite =>
            \A i \in 1..(j - 1) :
                admitLog[i].uri = admitLog[j].uri =>
                    admitLog[j].t - admitLog[i].t >= eventDebounceMs

\* a change was dropped for a document that has an admitted event, and a
\* change was admitted after an earlier event of its document
C1_Witness ==
    /\ \E k \in DroppedChanges :
          \E i \in 1..Len(admitLog) : admitLog[i].uri = cursorLog[k].uri
    /\ \E j \in 1..Len(admitLog) :
          /\ ~admitLog[j].isWrite
          /\ \E i \in 1..(j - 1) : admitLog[i].uri = admitLog[j].uri

\* a change admitted less than 50 ms after a write of its document
ChangeSoonAfterWrite ==
    \E j \in 1..Len(admitLog) :
        /\ ~admitLog[j].isWrite
        /\ \E i \in 1..(j - 1) :
              /\ admitLog[i].isWrite
              /\ admitLog[i].uri = admitLog[j].uri
              /\ admitLog[j].t - admitLog[i].t < eventDebounceMs

\* C2: the body of throttledHeartbeat, run for a write event, admits it
\* whatever time was recorded for its document (it is logged as admitted
\* and queueHeartbeat is spawned with it) and sets the document's
\* last-event time to the current time; and no change is admitted less
\* than 50 ms after a write of its document.
C2_WriteAlwaysAdmitted ==
    /\ [][\A h \in handlers :
            (ThrottleStep(h) /\ h.hb.IsWrite) =>
                /\ admitLog' = Append(admitLog,
                      [id |-> h.id, uri |-> h.hb.Entity,
                       isWrite |-> TRUE, t |-> now])
                /\ h.hb.Entity \in DOMAIN lastEventTime'
                /\ lastEventTime'[h.hb.Entity] = now
                /\ [hb |-> h.hb, pc |-> "start"] \in queueTasks']_vars
    /\ [](~ChangeSoonAfterWrite)

\* a write was admitted, in this behaviour, less than 50 ms after an
\* admitted event of its document, and a change of that document that
\* came less than 50 ms after the write was dropped
C2_Witness ==
    \E j \in 1..Len(admitLog) :
        /\ admitLog[j].isWrite
        /\ admitLog[j].t > 0
        /\ \E i \in 1..(j - 1) :
              /\ admitLog[i].uri = admitLog[j].uri
              /\ admitLog[j].t - admitLog[i].t < eventDebounceMs
        /\ \E k \in DroppedChanges :
              /\ cursorLog[k].uri = admitLog[j].uri
              /\ cursorLog[k].id > admitLog[j].id
        /\ now - admitLog[j].t < eventDebounceMs

\* a record is appended to the queue in this step
EnqueueStep == Len(appended') = Len(appended) + 1

\* C3 as stated: queueHeartbeat on an empty queue leaves one record and
\* exactly one pending batch timer, the one batchSendTimer refers to;
\* queueHeartbeat while a timer is pending creates no timer.
C3_ExactlyOneTimerPending ==
    [][EnqueueStep =>
         /\ (Len(heartbeatQueue) = 0 =>
                /\ Len(heartbeatQueue') = 1
                /\ Cardinality(timers') = 1
                /\ batchSendTimer' # NilTimer
                /\ batchSendTimer'[1] \in timers')
         /\ (timers # {} =>
                /\ timers' = timers
                /\ timerCount' = timerCount
                /\ batchSendTimer' = batchSendTimer)]_vars

\* C3, amended: queueHeartbeat on an empty queue leaves one record and
\* exactly one pending batch timer, the one batchSendTimer refers to,
\* unless a timer has fired and its callback has not yet cleared
\* batchSendTimer: then no timer is created, and batchSendTimer still
\* refers to the fired timer, whose callback is about to flush.
\* queueHeartbeat while a timer is pending creates no timer.
C3_OneTimerPerBatch ==
    [][EnqueueStep =>
         /\ (Len(heartbeatQueue) = 0 =>
                /\ Len(heartbeatQueue') = 1
                /\ batchSendTimer' # NilTimer
                /\ IF timerTasks = {}
                   THEN /\ Cardinality(timers') = 1
                        /\ batchSendTimer'[1] \in timers'
                   ELSE /\ timers' = {}
                        /\ timerCount' = timerCount
                        /\ batchSendTimer'[1] \in timerTasks')
         /\ (timers # {} =>
                /\ timers' = timers
                /\ timerCount' = timerCount
                /\ batchSendTimer' = batchSendTimer)]_vars

\* a record was queued on the queue a flush had emptied, after the batch
\* timer fired and before its callback cleared batchSendTimer: no timer
\* is pending, and the callback is about to flush the record
C3_Witness ==
    /\ Len(dispatched) = 1
    /\ Len(heartbeatQueue) = 1
    /\ queueTasks = {}
    /\ flushTasks = {}
    /\ timers = {}
    /\ timerCount = 1
    /\ timerTasks = {1}
    /\ batchSendTimer = <<1>>

GoFlushes == {f \in flushTasks : f.src = "goflush"}

\* C4: a queueHeartbeat that leaves maxQueueSize records or more spawns
\* exactly one flushHeartbeats, and leaves the batch timer as it was:
\* none created, none cancelled, none reset.
C4_ImmediateFlushAtCap ==
    [][(EnqueueStep /\ Len(heartbeatQueue') >= maxQueueSize) =>
         /\ \E f \in flushTasks' :
               /\ f.src = "goflush" /\ f.pc = "start"
               /\ f \notin flushTasks
               /\ flushTasks' = flushTasks \cup {f}
         /\ UNCHANGED <<batchSendTimer, timers, timerCount, timerTasks>>]_vars

\* two calls have each left the queue at the cap or above it, the second
\* one after the batch timer fired: two immediate flushes are waiting
C4_Witness ==
    /\ Len(heartbeatQueue) > maxQueueSize
    /\ Cardinality({f \in GoFlushes : f.pc = "start"}) = 2
    /\ timers = {}

\* a deferred flush is pending: batchSendTimer refers to a timer that
\* has not fired, or to one whose callback has started and has yet to
\* clear the reference and call flushHeartbeats
DeferredFlushPending ==
    /\ batchSendTimer # NilTimer
    /\ \/ batchSendTimer[1] \in timers
       \/ batchSendTimer[1] \in timerTasks

\* C5: flushHeartbeats on a non-empty queue removes the head and nothing
\* else, and hands the head to sendHeartbeat; if records remain, a
\* deferred flush is pending when it returns; on an empty queue it
\* changes nothing.
C5_FlushPopsHead ==
    [][\A f \in flushTasks :
         FlushStep(f) =>
            IF heartbeatQueue = << >>
            THEN UNCHANGED <<heartbeatQueue, batchSendTimer, timers,
                             timerCount, timerTasks, sendTasks, dispatched,
                             queueTasks, lastResult, spawned>>
            ELSE /\ heartbeatQueue' = Tail(heartbeatQueue)
                 /\ dispatched' = Append(dispatched, Head(heartbeatQueue))
                 /\ sendTasks' = sendTasks \cup {Head(heartbeatQueue)}
                 /\ (heartbeatQueue' # << >> => DeferredFlushPending')]_vars

\* a flush has popped the head of a queue of three and left two records,
\* with a batch timer pending
C5_Witness ==
    /\ Len(dispatched) = 1
    /\ Len(heartbeatQueue) = 2
    /\ dispatched[1].id < heartbeatQueue[1].id
    /\ timers # {}
    /\ queueMutex = Free

\* C6: the records are dispatched in the order they were appended to the
\* queue: the dispatched records are, one for one, the first records
\* appended.
C6_StrictFifo ==
    /\ Len(dispatched) <= Len(appended)
    /\ \A i \in 1..Len(dispatched) : dispatched[i].id = appended[i]

\* an immediate flush and the batch timer's flush have both dispatched,
\* and records are still queued
C6_Witness ==
    /\ Len(dispatched) >= 2
    /\ dispatched[1].id # dispatched[2].id
    /\ heartbeatQueue # << >>
    /\ firedCount >= 1

\* C7: at most one batch timer is pending in every state; a timer is
\* created only when batchSendTimer is nil, no timer is pending and no
\* fired callback has yet to clear the reference, and it is then the only
\* one pending; scheduleBatchSend with a timer pending changes nothing.
C7_AtMostOneTimer ==
    /\ [](Cardinality(timers) <= 1)
    /\ [](timers # {} => batchSendTimer # NilTimer /\ batchSendTimer[1] \in timers)
    /\ [][timerCount' # timerCount =>
            /\ batchSendTimer = NilTimer
            /\ timers = {}
            /\ timerTasks = {}
            /\ timerCount' = timerCount + 1
            /\ timers' = {timerCount'}
            /\ batchSendTimer' = <<timerCount'>>]_vars
    /\ [][timers # {} => timerCount' = timerCount]_vars

\* a second timer is pending, created after the first fired and its
\* callback cleared batchSendTimer
C7_Witness ==
    /\ timerCount = 2
    /\ timers = {2}
    /\ batchSendTimer = <<2>>
    /\ firedCount = 1

\* name is the last element of path, as filepath.Base returns it: "/"
\* for a path of separators only, else the part, free of separators,
\* that precedes the trailing separators and follows the last other one
IsBaseOf(name, path) ==
    IF \A i \in 1..Len(path) : path[i] = "/"
    THEN name = <<"/">>
    ELSE /\ name # << >>
         /\ \A i \in 1..Len(name) : name[i] # "/"
         /\ \E k \in 0..Len(path) :
               /\ k + Len(name) <= Len(path)
               /\ (k > 0 => path[k] = "/")
               /\ \A i \in 1..Len(name) : path[k + i] = name[i]
               /\ \A i \in (k + Len(name) + 1)..Len(path) : path[i] = "/"

\* C8: queueHeartbeat appends the record it was given with, where the
\* project root r is not empty, an unset alternate-project replaced by
\* the base name of r and an unset project-folder replaced by r (for
\* the root /repo: repo and /repo), and every field that was set left as
\* it was; flushHeartbeats dispatches the queued record as it is.
C8_ProjectFieldsFilled ==
    /\ [][\A q \in queueTasks :
            QueueStep(q) =>
               LET hb == q.hb
                   r  == heartbeatQueue'[Len(heartbeatQueue')]
               IN  /\ heartbeatQueue' = Append(heartbeatQueue, r)
                   /\ IF hb.AlternateProject = << >> /\ projectRoot # << >>
                      THEN /\ IsBaseOf(r.AlternateProject, projectRoot)
                           /\ (projectRoot = RepoRoot =>
                                 r.AlternateProject = <<"r", "e", "p", "o">>)
                      ELSE r.AlternateProject = hb.AlternateProject
                   /\ IF hb.ProjectFolder = << >> /\ projectRoot # << >>
                      THEN r.ProjectFolder = projectRoot
                      ELSE r.ProjectFolder = hb.ProjectFolder
                   /\ r = [hb EXCEPT
                             !.AlternateProject = r.AlternateProject,
                             !.ProjectFolder = r.ProjectFolder]]_vars
    /\ [][\A f \in flushTasks :
            (FlushStep(f) /\ heartbeatQueue # << >>) =>
               /\ dispatched' = Append(dispatched, Head(heartbeatQueue))
               /\ Head(heartbeatQueue) \in sendTasks']_vars

\* with the root /repo, a record queued with both fields unset was
\* dispatched with repo and /repo, and one queued with both fields set
\* was dispatched with the values it had
C8_Witness ==
    /\ projectRoot = RepoRoot
    /\ \E i \in 1..Len(dispatched) :
          /\ dispatched[i].AlternateProject = <<"r", "e", "p", "o">>
          /\ dispatched[i].ProjectFolder = RepoRoot
    /\ \E i \in 1..Len(dispatched) :
          /\ dispatched[i].AlternateProject = <<"x">>
          /\ dispatched[i].ProjectFolder = <<"/", "y">>

\* C9: with no path to wakatime-cli, every sendHeartbeat returns the
\* configuration error and starts no process.
C9_NoCliPathNoSpawn ==
    /\ [](wakatimeCliPath = "" => spawned = {})
    /\ [][\A hb \in sendTasks :
            (wakatimeCliPath = "" /\ hb \notin sendTasks') =>
               /\ lastResult' = "config"
               /\ spawned' = spawned]_vars

\* with no path, a record was dispatched and its sendHeartbeat call has
\* returned
C9_Witness ==
    /\ wakatimeCliPath = ""
    /\ Len(dispatched) = 1
    /\ sendTasks = {}
    /\ lastResult = "config"
    /\ spawned = {}

RECURSIVE LastChangePos(_, _, _)
\* the column of the last of the first k change events that is of
\* document uri, 0 if there is none
LastChangePos(log, uri, k) ==
    IF k = 0 THEN 0
    ELSE IF log[k].uri = uri THEN log[k].pos
    ELSE LastChangePos(log, uri, k - 1)

\* C10: the heartbeat a save builds has line number 1, the write flag,
\* and as cursor position the column the last change event of its
\* document stored (0 if there was none), whether the throttle admitted
\* that change or dropped it.
C10_SaveUsesStoredCursor ==
    /\ [](\A h \in handlers :
            h.kind = "save" => h.hb.LineNumber = 1 /\ h.hb.IsWrite)
    /\ [][\A h \in handlers :
            (h.kind = "save" /\ h.pc = "getCursor" /\ h \notin handlers') =>
               \E g \in handlers' :
                  /\ g.id = h.id
                  /\ g.pc = "throttle"
                  /\ g.hb = [h.hb EXCEPT !.CursorPos =
                               LastChangePos(cursorLog, h.hb.Entity,
                                             Len(cursorLog))]]_vars

\* a save has taken column 5 from a change of its document that the
\* throttle dropped
C10_Witness ==
    \E h \in handlers :
        /\ h.kind = "save"
        /\ h.pc = "throttle"
        /\ h.hb.CursorPos = 5
        /\ \E k \in DroppedChanges :
              /\ cursorLog[k].uri = h.hb.Entity
              /\ cursorLog[k].pos = 5
              /\ \A m \in (k + 1)..Len(cursorLog) :
                    cursorLog[m].uri # h.hb.Entity

\* the ids of a sequence of records
RecordIds(q) == {q[i].id : i \in 1..Len(q)}

\* C11: a popped record is handed to sendHeartbeat once and is never
\* queued again: no record is dispatched twice, no dispatched record is
\* in the queue, a record waits for sendHeartbeat only after its
\* dispatch; and a sendHeartbeat call, whatever it returns, leaves the
\* queue, the batch timer and the throttle table as they were.
C11_DeliveryLeavesStateAlone ==
    /\ [](/\ \A i, j \in 1..Len(dispatched) :
                dispatched[i].id = dispatched[j].id => i = j
          /\ RecordIds(dispatched) \cap RecordIds(heartbeatQueue) = {}
          /\ \A hb \in sendTasks : hb.id \in RecordIds(dispatched))
    /\ [][\A hb \in sendTasks :
            hb \notin sendTasks' =>
               /\ sendTasks' = sendTasks \ {hb}
               /\ lastResult' \in {"nil", "error", "config"}
               /\ UNCHANGED <<heartbeatQueue, batchSendTimer, timers,
                              timerCount, timerTasks, lastEventTime,
                              queueTasks, flushTasks, appended,
                              dispatched>>]_vars

\* a delivery has failed while records are queued and the batch timer is
\* pending, and the failed record is not in the queue
C11_Witness ==
    /\ lastResult = "error"
    /\ Len(dispatched) >= 1
    /\ sendTasks = {}
    /\ heartbeatQueue # << >>
    /\ timers # {}
    /\ lastEventTime # << >>

\* C12: batchSendTimer is written only by the task that holds queueMutex
\* (the step that writes it starts with the lock taken and ends its
\* critical section), and it does not change while another task stays in
\* its critical section.
C12_TimerRefUnderLock ==
    /\ [][batchSendTimer' # batchSendTimer =>
            (queueMutex # Free /\ queueMutex' = Free)]_vars
    /\ [][(queueMutex # Free /\ queueMutex' = queueMutex) =>
            batchSendTimer' = batchSendTimer]_vars

\* the tasks inside a critical section of queueMutex
LockHolders ==
    {QueueTid(q) : q \in {x \in queueTasks : x.pc = "locked"}}
       \cup {FlushTid(f) : f \in {x \in flushTasks : x.pc = "locked"}}

\* C13: a flush that dispatches a record ends with the lock released and
\* the delivery still to run; the lock is held only by a queueHeartbeat
\* or a flushHeartbeats inside its critical section, whose next step is
\* enabled whatever deliveries are outstanding; and with the lock free,
\* every waiting queueHeartbeat and flushHeartbeats can take it.
C13_LockNotHeldForDelivery ==
    /\ [][\A f \in flushTasks :
            (FlushStep(f) /\ heartbeatQueue # << >>) =>
               /\ queueMutex' = Free
               /\ Head(heartbeatQueue) \in sendTasks']_vars
    /\ [](/\ queueMutex # Free => LockHolders = {queueMutex}
          /\ queueMutex = Free => LockHolders = {}
          /\ \A q \in queueTasks :
                IF q.pc = "locked" THEN ENABLED QueueBody(q)
                ELSE queueMutex = Free => ENABLED QueueLock(q)
          /\ \A f \in flushTasks :
                IF f.pc = "locked" THEN ENABLED FlushBody(f)
                ELSE queueMutex = Free => ENABLED FlushLock(f))

\* two deliveries are outstanding, and a queueHeartbeat that came after
\* them is inside its critical section
C13_Witness ==
    /\ Cardinality(sendTasks) = 2
    /\ \E q \in queueTasks :
          /\ q.pc = "locked"
          /\ \A hb \in sendTasks : hb.id < q.hb.id

\* the flushes on their way: fired callbacks and flushHeartbeats calls
\* that have not finished
FlushesUnderWay == Cardinality(timerTasks) + Cardinality(flushTasks)

\* C14: one record per trigger: the records dispatched, together with
\* the flushes on their way, are never more than the batch-timer firings
\* plus the queueHeartbeat calls that left maxQueueSize records or more;
\* so while no call has reached the cap, no more records have left the
\* queue than timers have fired, and no step dispatches two records.
C14_OneRecordPerTrigger ==
    /\ [](/\ Len(dispatched) <= firedCount + capEnqueues
          /\ Len(dispatched) + FlushesUnderWay <= firedCount + capEnqueues
          /\ capEnqueues = 0 => Len(dispatched) <= firedCount)
    /\ [][Len(dispatched') <= Len(dispatched) + 1]_vars

\* the timer fired once and two calls reached the cap: three records
\* were dispatched, no flush is on its way, and the backlog is still
\* queued with a timer pending or its reference stale
C14_Witness ==
    /\ firedCount = 1
    /\ capEnqueues = 2
    /\ Len(dispatched) = 3
    /\ FlushesUnderWay = 0
    /\ Len(heartbeatQueue) > 1
    /\ Len(heartbeatQueue) < maxQueueSize

RECURSIVE LastAdmitTime(_, _, _)
\* the time of the last of the first k admissions that is of document uri
LastAdmitTime(log, uri, k) ==
    IF k = 0 THEN -1
    ELSE IF log[k].uri = uri THEN log[k].t
    ELSE LastAdmitTime(log, uri, k - 1)

\* C15: lastEventTime changes only in a throttledHeartbeat that admits;
\* a throttledHeartbeat that drops its event leaves the table as it was
\* and starts no queueHeartbeat; one that admits sets the entry of its
\* document and leaves every other entry; so each entry is the time of
\* the last admitted event of its document.
C15_ThrottleFrame ==
    /\ [][\A h \in handlers :
            ThrottleStep(h) =>
               IF [hb |-> h.hb, pc |-> "start"] \in queueTasks'
               THEN /\ DOMAIN lastEventTime' =
                          (DOMAIN lastEventTime) \cup {h.hb.Entity}
                    /\ lastEventTime'[h.hb.Entity] = now
                    /\ \A u \in (DOMAIN lastEventTime) \ {h.hb.Entity} :
                          lastEventTime'[u] = lastEventTime[u]
               ELSE /\ lastEventTime' = lastEventTime
                    /\ queueTasks' = queueTasks
                    /\ heartbeatQueue' = heartbeatQueue]_vars
    /\ [][lastEventTime' # lastEventTime =>
            \E h \in handlers :
               /\ ThrottleStep(h)
               /\ [hb |-> h.hb, pc |-> "start"] \in queueTasks']_vars
    /\ [](\A u \in Docs :
            IF u \in DOMAIN lastEventTime
            THEN lastEventTime[u] =
                    LastAdmitTime(admitLog, u, Len(admitLog))
            ELSE LastAdmitTime(admitLog, u, Len(admitLog)) = -1)

\* a change of /a.go was seen at a time after 0 and dropped, and an
\* event of /b.go was admitted: the entry of /a.go is still the time of
\* its last admitted event, 0, and /b.go has an entry of its own
C15_Witness ==
    /\ handlers = {}
    /\ DOMAIN lastEventTime = {"/a.go", "/b.go"}
    /\ lastEventTime["/a.go"] = 0
    /\ lastEventTime["/b.go"] > 0
    /\ \E k \in DroppedChanges : cursorLog[k].uri = "/a.go"

\* the ids appended to the queue so far
AppendedIds == {appended[i] : i \in 1..Len(appended)}

\* C16: under the fair scheduler, every heartbeat the throttle admits is
\* eventually appended to the queue and eventually dispatched.
C16_AdmittedEventuallyDispatched ==
    \A i \in 1..MaxEvents :
        /\ (i \in AdmitIds) ~> (i \in AppendedIds)
        /\ (i \in AdmitIds) ~> (i \in RecordIds(dispatched))

\* two admitted heartbeats were queued together, and both were dispatched,
\* each by a timer of its own
C16_Witness ==
    /\ Len(admitLog) = 2
    /\ Len(dispatched) = 2
    /\ heartbeatQueue = << >>
    /\ firedCount = 2
    /\ timerCount = 2

\* C17: whenever the queue is not empty and queueMutex is free, a batch
\* timer is pending, or a timer has fired and its callback has not yet
\* run its flushHeartbeats (it is before the clear of line 131, or
\* between the clear and the Lock() of line 137).
C17_QueueHasFutureFlush ==
    (heartbeatQueue # << >> /\ queueMutex = Free) =>
        \/ timers # {}
        \/ timerTasks # {}
        \/ \E f \in flushTasks : f.src = "timerflush"

\* records are queued with the lock free and no timer pending: a timer
\* fired, its callback cleared batchSendTimer and has yet to take the
\* lock for its flush, after an immediate flush dispatched a record
C17_Witness ==
    /\ heartbeatQueue # << >>
    /\ queueMutex = Free
    /\ timers = {}
    /\ timerTasks = {}
    /\ batchSendTimer = NilTimer
    /\ Len(dispatched) >= 1
    /\ \E f \in flushTasks : f.src = "timerflush" /\ f.pc = "start"

\* C18: the queue length less the immediate flushes that were started
\* and have not yet run is at most maxQueueSize - 1; so with no immediate
\* flush outstanding the queue holds fewer than maxQueueSize records.
C18_QueueBoundedByCap ==
    /\ Len(heartbeatQueue) - Cardinality(GoFlushes) <= maxQueueSize - 1
    /\ (GoFlushes = {} => Len(heartbeatQueue) < maxQueueSize)

\* the queue holds more than maxQueueSize records while two immediate
\* flushes wait and the batch timer is pending
C18_Witness ==
    /\ Len(heartbeatQueue) = maxQueueSize + 1
    /\ Cardinality(GoFlushes) = 2
    /\ timers # {}

\* the ids of a sequence of records, in its order
SeqIds(q) == [i \in 1..Len(q) |-> q[i].id]

\* the heartbeats whose queueHeartbeat was started and has not appended
PendingIds == {q.hb.id : q \in queueTasks}

\* the place of an admitted heartbeat in the order of admission
AdmitPos(id) == CHOOSE k \in 1..Len(admitLog) : admitLog[k].id = id

\* C19 as stated: the heartbeats are appended in the order the throttle
\* admitted them: the k-th append is of the k-th admitted heartbeat.
C19_AppendInAdmissionOrder ==
    /\ Len(appended) <= Len(admitLog)
    /\ \A k \in 1..Len(appended) : appended[k] = admitLog[k].id

\* C19, amended: every admitted heartbeat is appended once, by the
\* queueHeartbeat its admission started, and not before; the queue holds
\* the records in the order of the appends, which is the order in which
\* the queueHeartbeat goroutines ran their critical sections and need not
\* be the order of admission: the dispatched records followed by the
\* queued ones are the appended ones, in that order.
C19_AppendInLockOrder ==
    /\ [](/\ Cardinality(AppendedIds) = Len(appended)
          /\ AppendedIds \cap PendingIds = {}
          /\ AppendedIds \cup PendingIds = AdmitIds
          /\ SeqIds(dispatched) \o SeqIds(heartbeatQueue) = appended)
    /\ [][\A q \in queueTasks :
            QueueStep(q) =>
               /\ q.hb.id \in AdmitIds
               /\ appended' = Append(appended, q.hb.id)]_vars

\* two heartbeats of one document are queued in the reverse of the order
\* of their admission
C19_Witness ==
    /\ Len(heartbeatQueue) >= 2
    /\ queueTasks = {}
    /\ LET n == Len(heartbeatQueue)
       IN  /\ heartbeatQueue[n].Entity = heartbeatQueue[n - 1].Entity
           /\ AdmitPos(heartbeatQueue[n].id) <
                 AdmitPos(heartbeatQueue[n - 1].id)

\* the handlers inside a critical section of cursorMutex, of eventMutex
CursorHolders ==
    {HandlerTid(h) : h \in {x \in handlers :
                              x.pc \in {"saveCursor", "getCursor"}}}

EventHolders ==
    {HandlerTid(h) : h \in {x \in handlers : x.pc = "throttleLocked"}}

\* no goroutine of the pipeline is running or waiting, and no lock is held
Quiescent ==
    /\ handlers = {} /\ queueTasks = {} /\ timerTasks = {} /\ flushTasks = {}
    /\ cursorMutex = Free /\ eventMutex = Free /\ queueMutex = Free

\* a step of a goroutine that holds a lock: the rest of its critical
\* section and the Unlock()
HolderStep ==
    \/ \E h \in handlers : SaveCursorBody(h)
    \/ \E h \in handlers : GetCursorBody(h)
    \/ \E h \in handlers : ThrottleBody(h)
    \/ \E q \in queueTasks : QueueBody(q)
    \/ \E f \in flushTasks : FlushBody(f)

\* each lock is held only by a goroutine inside the critical section of
\* that lock, a goroutine elsewhere holds none, a goroutine inside a
\* critical section can take its next step, and unless the pipeline is
\* at rest some goroutine can take a step
LockDiscipline ==
    /\ CursorHolders = IF cursorMutex = Free THEN {} ELSE {cursorMutex}
    /\ EventHolders = IF eventMutex = Free THEN {} ELSE {eventMutex}
    /\ LockHolders = IF queueMutex = Free THEN {} ELSE {queueMutex}
    /\ \A h \in handlers :
          h.pc \in {"saveCursor", "getCursor", "throttle", "throttleLocked"}
    /\ \A h \in handlers : (h.pc = "saveCursor" => ENABLED SaveCursorBody(h))
    /\ \A h \in handlers : (h.pc = "getCursor" => ENABLED GetCursorBody(h))
    /\ \A h \in handlers :
          (h.pc = "throttleLocked" => ENABLED ThrottleBody(h))
    /\ \A q \in queueTasks : (q.pc = "locked" => ENABLED QueueBody(q))
    /\ \A f \in flushTasks : (f.pc = "locked" => ENABLED FlushBody(f))
    /\ (Quiescent \/ ENABLED
          (HolderStep
             \/ (\E h \in handlers, d \in Elapsed : ThrottleLock(h, d))
             \/ (\E q \in queueTasks : QueueLock(q))
             \/ (\E t \in timerTasks : TimerClear(t))
             \/ (\E f \in flushTasks : FlushLock(f))))

====
